---- MODULE Spec2Model ----
(***************************************************************************)
(* Model of the fsuipc user-mode client: the bounded raw cursors of        *)
(* src/raw.rs (RawBytes, MutRawBytes), the UserHandle / UserSession        *)
(* engine of src/user.rs, and the frame codec (module ipc) that user.rs    *)
(* calls.                                                                  *)
(*                                                                         *)
(* Memory is modelled as sequences of bytes; a raw pointer is a 1-based    *)
(* index into the sequence it points into.                                 *)
(***************************************************************************)
EXTENDS Integers, Sequences, FiniteSets, TLC

\* ------------------------------------------------------------------ bounds
MaxSrc == 3        \* longest source region given to a RawBytes
MaxCount == 4      \* largest buff.len() passed to RawBytes::read
MaxDst == 3        \* size of the destination region under a MutRawBytes
MaxIn == 3         \* longest buff passed to one MutRawBytes::write
MaxCat == 4        \* cap on the total input length over all write calls
BufCells == 24     \* cells of the shared region in the model
MaxQueued == 3     \* most read/write calls made on one session
MaxSessions == 2   \* most sessions a client creates from one handle
MaxReadLen == 2    \* longest read request; also the size of one destination
MaxScan == 7       \* bytes of the view in the scan specification
MaxCalls == 2      \* calls of next_file_mapping_index() by one thread

ByteVals == {1, 2}

Min(a, b) == IF a < b THEN a ELSE b

SeqsUpTo(S, n) == UNION {[1..k -> S] : k \in 0..n}

Zeros(n) == [i \in 1..n |-> 0]

VARIABLES
    rsrc,     \* the source region a RawBytes was created over
    rcur,     \* the RawBytes: [data, len, read]
    rret,     \* last read call: [count, n, err, buff]
    rsum,     \* sum of the counts returned by all read calls so far
    rout,     \* bytes handed out by all read calls, in call order
    wdst,     \* the destination region a MutRawBytes was created over
    wcur,     \* the MutRawBytes: [data, len]
    wn,       \* the length the MutRawBytes was created with
    wret,     \* last write call: [inlen, n, err, stores]
    wcat,     \* concatenation of the inputs of all write calls so far
    hpc,      \* the owner of the UserHandle: "start", "alive", "refused", "dropped"
    res,      \* OS resources: atom, mapping, view, each "none"/"held"/"released"
    rel,      \* how many times each resource's release call has run
    shm,      \* the mapped view (the shared buffer)
    umem,     \* the caller's memory that read destinations point into
    sess,     \* the UserSessions: [st, buffer, queued, ret, stores]
    pr,       \* the last process() call: what the peer answered, what it returned
    crashed,  \* the process died on an access to an unmapped view
    scview,   \* a view's content, as some peer left it
    scres,    \* the outcome of the response scan over scview
    FILE_MAPPING_INDEX,  \* static mut FILE_MAPPING_INDEX: u32
    th        \* threads in next_file_mapping_index(): [pc, next, tmp, rets]

rvars == <<rsrc, rcur, rret, rsum, rout>>
wvars == <<wdst, wcur, wn, wret, wcat>>
uvars == <<hpc, res, rel, shm, umem, sess, pr, crashed>>
svars == <<scview, scres>>
ivars == <<FILE_MAPPING_INDEX, th>>

\* ------------------------------------------------------------ src/raw.rs
\* RawBytes::new
RawBytes_new(data, len) == [data |-> data, len |-> len, read |-> 0]

\* RawBytes::consumed
consumed(self) == self.read

\* The loop of RawBytes::read over the first nbytes items of buff:
\* *item = *self.data; self.data = self.data.offset(1); len -= 1; read += 1
RECURSIVE RawReadLoop(_, _, _, _, _)

\* A loop that counts every byte but leaves self.data where it was.
RECURSIVE RawReadLoop_noadvance(_, _, _, _, _)
RawReadLoop_noadvance(self, mem, buff, i, nbytes) ==
    IF i > nbytes
    THEN [self |-> self, buff |-> buff]
    ELSE RawReadLoop_noadvance([data |-> self.data,
                                len  |-> self.len - 1,
                                read |-> self.read + 1],
                               mem,
                               [buff EXCEPT ![i] = mem[self.data]],
                               i + 1, nbytes)

RawReadLoop(self, mem, buff, i, nbytes) ==
    IF i > nbytes
    THEN [self |-> self, buff |-> buff]
    ELSE RawReadLoop([data |-> self.data + 1,
                      len  |-> self.len - 1,
                      read |-> self.read + 1],
                     mem,
                     [buff EXCEPT ![i] = mem[self.data]],
                     i + 1, nbytes)

\* A read that reports the requested count instead of the clamped one.
RawBytes_read_unclamped(self, mem, buff) ==
    RawReadLoop(self, mem, buff, 1, Min(self.len, Len(buff)))
        @@ [n |-> Len(buff), err |-> FALSE]

\* impl io::Read for RawBytes :: read(&mut self, buff) -> Ok(nbytes)
\* The result: the cursor, the buffer, the count, and that it is an Ok.
RawBytes_read(self, mem, buff) ==
    RawReadLoop(self, mem, buff, 1, Min(self.len, Len(buff)))
        @@ [n |-> Min(self.len, Len(buff)), err |-> FALSE]

\* MutRawBytes::new
MutRawBytes_new(data, len) == [data |-> data, len |-> len]

\* The loop of MutRawBytes::write over the first nbytes items of buff: the
\* local `data` is re-read from *self.data on every iteration, the byte is
\* stored through it, and the incremented local is dropped at the end of the
\* iteration. stores: the addresses stored to, in order.
RECURSIVE MutWriteLoop(_, _, _, _, _, _)
MutWriteLoop(self, mem, buff, i, nbytes, stores) ==
    IF i > nbytes
    THEN [self |-> self, mem |-> mem, stores |-> stores]
    ELSE MutWriteLoop([data |-> self.data, len |-> self.len - 1],
                      [mem EXCEPT ![self.data] = buff[i]],
                      buff, i + 1, nbytes,
                      Append(stores, self.data))

\* A write that reports the input length instead of the clamped count.
MutRawBytes_write_unclamped(self, mem, buff) ==
    MutWriteLoop(self, mem, buff, 1, Min(self.len, Len(buff)), <<>>)
        @@ [n |-> Len(buff), err |-> FALSE]

\* A write that stores the whole input, whatever is left of the region.
MutRawBytes_write_unbounded(self, mem, buff) ==
    MutWriteLoop(self, mem, buff, 1, Len(buff), <<>>)
        @@ [n |-> Len(buff), err |-> FALSE]

\* impl io::Write for MutRawBytes :: write(&mut self, buff) -> Ok(nbytes)
MutRawBytes_write(self, mem, buff) ==
    MutWriteLoop(self, mem, buff, 1, Min(self.len, Len(buff)), <<>>)
        @@ [n |-> Min(self.len, Len(buff)), err |-> FALSE]

\* ----------------------------------------------------- frame codec (ipc)
\* user.rs calls write_rsd, write_wsd, write_header, read_header and
\* read_body of module ipc and matches on MsgHeader; the layout below is
\* the wire format of the design document, plus the `target` field that
\* user.rs reads out of a ReadStateData header.
FS6IPC_TERMINATION_ID == 0
FS6IPC_READSTATEDATA_ID == 1
FS6IPC_WRITESTATEDATA_ID == 2

\* MsgHeader
ReadStateData(offset, len, target) ==
    [kind |-> "ReadStateData", offset |-> offset, len |-> len, target |-> target]
WriteStateData(offset, len) ==
    [kind |-> "WriteStateData", offset |-> offset, len |-> len, target |-> 0]
TerminationMark ==
    [kind |-> "TerminationMark", offset |-> 0, len |-> 0, target |-> 0]

\* a 16-bit field, low byte first
U16(x) == <<(x % 65536) % 256, (x % 65536) \div 256>>
FromU16(b) == b[1] + 256 * b[2]

HeaderBytes(h) ==
    CASE h.kind = "ReadStateData" ->
            <<FS6IPC_READSTATEDATA_ID>> \o U16(h.offset) \o U16(h.len) \o <<h.target>>
      [] h.kind = "WriteStateData" ->
            <<FS6IPC_WRITESTATEDATA_ID>> \o U16(h.offset) \o U16(h.len)
      [] OTHER -> <<FS6IPC_TERMINATION_ID>>

\* The outcome of handing `want` bytes to the write cursor: a short count
\* from the cursor is the only sign that they did not fit. `before` is what
\* the call had written earlier, `earlier` the addresses it stored to.
WriteOutcome(w, want, before, earlier) ==
    [self |-> w.self, mem |-> w.mem, n |-> before + w.n, ok |-> (w.n = want),
     stores |-> earlier \o w.stores]

\* MsgWrite::write_header: the header goes through the write cursor.
write_header(self, mem, h) ==
    WriteOutcome(MutRawBytes_write(self, mem, HeaderBytes(h)),
                 Len(HeaderBytes(h)), 0, <<>>)

\* MsgWrite::write_rsd: a ReadStateData header and no payload.
write_rsd(self, mem, offset, dest, len) ==
    write_header(self, mem, ReadStateData(offset, len, dest))

\* the payload of write_wsd, after its header h
write_payload(h, src, len) ==
    IF ~h.ok THEN h
    ELSE WriteOutcome(MutRawBytes_write(h.self, h.mem, SubSeq(src, 1, len)),
                      len, h.n, h.stores)

\* MsgWrite::write_wsd: a WriteStateData header, then len payload bytes.
write_wsd(self, mem, offset, src, len) ==
    write_payload(write_header(self, mem, WriteStateData(offset, len)), src, len)

\* the bytes that follow the discriminant in a header
FieldBytes(id) ==
    CASE id = FS6IPC_READSTATEDATA_ID -> 5
      [] id = FS6IPC_WRITESTATEDATA_ID -> 4
      [] OTHER -> 0

Malformed(self) == [self |-> self, ok |-> FALSE, header |-> TerminationMark]

\* read_header, after the fields f of a header with discriminant id
decode_fields(id, f) ==
    IF f.n < FieldBytes(id) THEN Malformed(f.self)
    ELSE [self |-> f.self, ok |-> TRUE,
          header |->
            CASE id = FS6IPC_READSTATEDATA_ID ->
                    ReadStateData(FromU16(SubSeq(f.buff, 1, 2)),
                                  FromU16(SubSeq(f.buff, 3, 4)), f.buff[5])
              [] id = FS6IPC_WRITESTATEDATA_ID ->
                    WriteStateData(FromU16(SubSeq(f.buff, 1, 2)),
                                   FromU16(SubSeq(f.buff, 3, 4)))
              [] OTHER -> TerminationMark]

\* read_header, after the read d of the discriminant
decode_header(d, mem) ==
    IF d.n < 1 THEN Malformed(d.self)
    ELSE IF d.buff[1] \notin {FS6IPC_TERMINATION_ID, FS6IPC_READSTATEDATA_ID,
                              FS6IPC_WRITESTATEDATA_ID}
    THEN Malformed(d.self)
    ELSE decode_fields(d.buff[1],
                       RawBytes_read(d.self, mem, Zeros(FieldBytes(d.buff[1]))))

\* MsgRead::read_header: discriminant, then the fields of that variant.
\* A short read or an unknown discriminant is MalformedFrame.
read_header(self, mem) ==
    decode_header(RawBytes_read(self, mem, Zeros(1)), mem)

\* read_body, after the read r of the body: the bytes go to the output.
copy_body(r, w) ==
    [self |-> r.self, ok |-> TRUE, omem |-> w.mem, data |-> r.buff,
     stores |-> w.stores]

\* read_body, after the read r of header.len bytes: a frame that runs past
\* the reader's end is MalformedFrame.
decode_body(r, header, output, omem) ==
    IF r.n < header.len
    THEN [self |-> r.self, ok |-> FALSE, omem |-> omem, data |-> <<>>,
          stores |-> <<>>]
    ELSE copy_body(r, MutRawBytes_write(output, omem, r.buff))

\* MsgRead::read_body into a MutRawBytes: header.len bytes go from the
\* reader to the output cursor.
read_body(self, mem, header, output, omem) ==
    decode_body(RawBytes_read(self, mem, Zeros(header.len)), header, output, omem)

\* read_body into io::sink(), after the read r: the bytes are dropped.
sink_body(r, header, omem) ==
    [self |-> r.self, ok |-> (r.n = header.len), omem |-> omem,
     data |-> <<>>, stores |-> <<>>]

\* MsgRead::read_body into io::sink()
read_body_sink(self, mem, header, omem) ==
    sink_body(RawBytes_read(self, mem, Zeros(header.len)), header, omem)

\* ----------------------------------------------------------- src/user.rs
FS6IPC_MESSAGE_SUCCESS == 1
\* 64 * 1024 in the source; the model keeps the region small.
FILE_MAPPING_LEN == BufCells

Ok(v) == [ok |-> TRUE, val |-> v, err |-> "", code |-> 0]
Err(kind, code) == [ok |-> FALSE, val |-> 0, err |-> kind, code |-> code]

\* impl Drop for UserHandle: GlobalDeleteAtom, UnmapViewOfFile, CloseHandle.
\* Runs for every UserHandle value, clones included.
drop_res(r) == [atom |-> "released", view |-> "released", mapping |-> "released"]
drop_rel(c) == [atom |-> c.atom + 1, view |-> c.view + 1, mapping |-> c.mapping + 1]

\* One arm of the match in process(), with the write echo's body left
\* unread.
scan_arm_noskip(buffer, m, cm, header) ==
    IF header.kind = "ReadStateData"
    THEN read_body(buffer, m, header,
                   MutRawBytes_new(header.target, header.len), cm)
    ELSE [self |-> buffer, ok |-> TRUE, omem |-> cm, data |-> <<>>,
          stores |-> <<>>]

\* One arm of the match in process(): a ReadStateData body goes to a
\* MutRawBytes over header.target, a WriteStateData body to io::sink().
scan_arm(buffer, m, cm, header) ==
    IF header.kind = "ReadStateData"
    THEN read_body(buffer, m, header,
                   MutRawBytes_new(header.target, header.len), cm)
    ELSE read_body_sink(buffer, m, header, cm)

\* The response scan of process(): decode a header, copy or skip its body,
\* until the termination mark or a decode error.
\* log: one entry per frame whose body was read; at: the bytes consumed.
RECURSIVE ScanLoop(_, _, _, _)

\* the loop, after the body b of the frame with this header
ScanBody(header, b, m, cm, log) ==
    IF ~b.ok
    THEN [ret |-> Err("MalformedFrame", 0), cmem |-> cm, log |-> log,
          at |-> consumed(b.self)]
    ELSE ScanLoop(b.self, m, b.omem,
                  Append(log, [header |-> header, data |-> b.data,
                               stores |-> b.stores, at |-> consumed(b.self)]))

\* A loop that, on a header it cannot decode, goes on with the bytes that
\* follow instead of returning.
ScanHeader_resync(h, m, cm, log) ==
    IF ~h.ok
    THEN IF h.self.len = 0
         THEN [ret |-> Err("MalformedFrame", 0), cmem |-> cm, log |-> log,
          at |-> consumed(h.self)]
         ELSE ScanLoop(h.self, m, cm, log)
    ELSE IF h.header.kind = "TerminationMark"
    THEN [ret |-> Ok(consumed(h.self)), cmem |-> cm, log |-> log,
          at |-> consumed(h.self)]
    ELSE ScanBody(h.header, scan_arm(h.self, m, cm, h.header), m, cm, log)

\* A loop whose count leaves the termination mark out.
ScanHeader_uncounted(h, m, cm, log) ==
    IF ~h.ok
    THEN [ret |-> Err("MalformedFrame", 0), cmem |-> cm, log |-> log,
          at |-> consumed(h.self)]
    ELSE IF h.header.kind = "TerminationMark"
    THEN [ret |-> Ok(consumed(h.self) - 1), cmem |-> cm, log |-> log,
          at |-> consumed(h.self)]
    ELSE ScanBody(h.header, scan_arm(h.self, m, cm, h.header), m, cm, log)

\* A loop that takes the end of the view for the termination mark.
ScanHeader_eofok(h, m, cm, log) ==
    IF ~h.ok
    THEN IF h.self.len = 0
         THEN [ret |-> Ok(consumed(h.self)), cmem |-> cm, log |-> log,
               at |-> consumed(h.self)]
         ELSE [ret |-> Err("MalformedFrame", 0), cmem |-> cm, log |-> log,
               at |-> consumed(h.self)]
    ELSE IF h.header.kind = "TerminationMark"
    THEN [ret |-> Ok(consumed(h.self)), cmem |-> cm, log |-> log,
          at |-> consumed(h.self)]
    ELSE ScanBody(h.header, scan_arm(h.self, m, cm, h.header), m, cm, log)

\* the loop, after read_header returned h
ScanHeader(h, m, cm, log) ==
    IF ~h.ok
    THEN [ret |-> Err("MalformedFrame", 0), cmem |-> cm, log |-> log,
          at |-> consumed(h.self)]
    ELSE IF h.header.kind = "TerminationMark"
    THEN [ret |-> Ok(consumed(h.self)), cmem |-> cm, log |-> log,
          at |-> consumed(h.self)]
    ELSE ScanBody(h.header, scan_arm(h.self, m, cm, h.header), m, cm, log)

ScanLoop(buffer, m, cm, log) ==
    ScanHeader(read_header(buffer, m), m, cm, log)

\* What SendMessageA leaves in the view: the peer's stream over the front
\* of the region, the rest as it was.
PeerWrite(m, image) ==
    [i \in 1..Len(m) |-> IF i <= Len(image) THEN image[i] ELSE m[i]]

\* process(), once SendMessageA returned success: the scan's outcome
process_scanned(sc, m2, t) ==
    [ret |-> sc.ret, mem |-> m2, cmem |-> sc.cmem, buffer |-> t.self,
     stores |-> t.stores,
     events |-> <<"termination", "commit", "scan">>, log |-> sc.log]

\* A process() that goes on to SendMessageA whatever write_header returned.
process_sent_anyway(t, cm, send_result, image) ==
    IF send_result # FS6IPC_MESSAGE_SUCCESS
    THEN [ret |-> Err("PeerRejected", send_result),
          mem |-> PeerWrite(t.mem, image), cmem |-> cm, buffer |-> t.self,
          stores |-> t.stores,
          events |-> <<"termination", "commit">>, log |-> <<>>]
    ELSE process_scanned(ScanLoop(RawBytes_new(1, FILE_MAPPING_LEN),
                                  PeerWrite(t.mem, image), cm, <<>>),
                         PeerWrite(t.mem, image), t)

\* process(), after write_header(TerminationMark) returned t
process_sent(t, cm, send_result, image) ==
    IF ~t.ok
    THEN [ret |-> Err("BufferExhausted", 0), mem |-> t.mem, cmem |-> cm,
          buffer |-> t.self, stores |-> t.stores,
          events |-> <<"termination_failed">>, log |-> <<>>]
    ELSE IF send_result # FS6IPC_MESSAGE_SUCCESS
    THEN [ret |-> Err("PeerRejected", send_result),
          mem |-> PeerWrite(t.mem, image), cmem |-> cm, buffer |-> t.self,
          stores |-> t.stores,
          events |-> <<"termination", "commit">>, log |-> <<>>]
    ELSE process_scanned(ScanLoop(RawBytes_new(1, FILE_MAPPING_LEN),
                                  PeerWrite(t.mem, image), cm, <<>>),
                         PeerWrite(t.mem, image), t)

\* A process() that scans the view whatever SendMessageA returned.
process_unchecked(buffer, m, cm, send_result, image) ==
    process_sent(write_header(buffer, m, TerminationMark), cm,
                 FS6IPC_MESSAGE_SUCCESS, image)

\* UserSession::process: termination mark, SendMessageA, status check,
\* response scan.
process(buffer, m, cm, send_result, image) ==
    process_sent(write_header(buffer, m, TerminationMark), cm,
                 send_result, image)

\* ---------------------------------------------------- session operations
NoSession == [st |-> "none", buffer |-> MutRawBytes_new(1, 0),
              queued |-> <<>>, ret |-> Ok(0), stores |-> <<>>]
NoProcess == [s |-> 0, status |-> 0, frames |-> <<>>, ending |-> "none",
              ret |-> Ok(0), events |-> <<>>, log |-> <<>>]

\* UserHandle::new: fail names the step that fails, "none" for success.
\* Each early return leaves what the earlier steps acquired as it is.
new(fail) ==
    /\ hpc = "start"
    /\ ~crashed
    /\ LET atom == fail \notin {"window", "message", "atom"}
           mapping == atom /\ fail # "mapping"
           view == mapping /\ fail # "view"
       IN  /\ res' = [atom |-> IF atom THEN "held" ELSE "none",
                      mapping |-> IF mapping THEN "held" ELSE "none",
                      view |-> IF view THEN "held" ELSE "none"]
           /\ shm' = IF view THEN Zeros(FILE_MAPPING_LEN) ELSE shm
    /\ hpc' = IF fail = "none" THEN "alive" ELSE "refused"
    /\ UNCHANGED <<rel, umem, sess, pr, crashed>>
    /\ UNCHANGED <<rvars, wvars, svars, ivars>>

\* impl Handle for UserHandle :: session(&self): a clone of the handle and a
\* fresh cursor over the whole view.
session(s) ==
    /\ hpc = "alive"
    /\ ~crashed
    /\ sess[s].st = "none"
    /\ sess' = [sess EXCEPT ![s] =
                  [st |-> "open",
                   buffer |-> MutRawBytes_new(1, FILE_MAPPING_LEN),
                   queued |-> <<>>, ret |-> Ok(0), stores |-> <<>>]]
    /\ UNCHANGED <<hpc, res, rel, shm, umem, pr, crashed>>
    /\ UNCHANGED <<rvars, wvars, svars, ivars>>

\* A read_bytes / write_bytes call q whose write_rsd / write_wsd returned w.
queue_call(s, q, w) ==
    /\ shm' = w.mem
    /\ sess' = [sess EXCEPT ![s] =
                  [st |-> "open", buffer |-> w.self,
                   queued |-> Append(sess[s].queued, q @@ [ok |-> w.ok]),
                   ret |-> IF w.ok THEN Ok(w.n)
                           ELSE Err("BufferExhausted", 0),
                   stores |-> sess[s].stores \o w.stores]]

\* UserSession::read_bytes
read_bytes(s, offset, dest, len) ==
    /\ sess[s].st = "open"
    /\ ~crashed
    /\ Len(sess[s].queued) < MaxQueued
    /\ queue_call(s, [kind |-> "read", offset |-> offset, len |-> len,
                      target |-> dest],
                  write_rsd(sess[s].buffer, shm, offset, dest, len))
    /\ UNCHANGED <<hpc, res, rel, umem, pr, crashed>>
    /\ UNCHANGED <<rvars, wvars, svars, ivars>>

\* UserSession::write_bytes
write_bytes(s, offset, src, len) ==
    /\ sess[s].st = "open"
    /\ ~crashed
    /\ Len(sess[s].queued) < MaxQueued
    /\ queue_call(s, [kind |-> "write", offset |-> offset, len |-> len,
                      target |-> 0],
                  write_wsd(sess[s].buffer, shm, offset, src, len))
    /\ UNCHANGED <<hpc, res, rel, umem, pr, crashed>>
    /\ UNCHANGED <<rvars, wvars, svars, ivars>>

\* The answer a peer gives to the request stream: one frame per call, in
\* call order, of the same kind, length and target.
Echo(queued) ==
    [k \in 1..Len(queued) |->
        IF queued[k].kind = "read"
        THEN ReadStateData(queued[k].offset, queued[k].len, queued[k].target)
        ELSE WriteStateData(queued[k].offset, queued[k].len)]

\* the k-th call's destination: its own variable in the caller's memory
DestOf(k) == MaxReadLen * (k - 1) + 1

\* A frame of the peer's stream as bytes: a frame of kind "CorruptRead" or
\* "CorruptWrite" is a ReadStateData or WriteStateData frame whose first
\* byte is one that no discriminant matches.
PeerHeader(f) ==
    CASE f.kind = "CorruptRead" ->
            <<255>> \o Tail(HeaderBytes(ReadStateData(f.offset, f.len, f.target)))
      [] f.kind = "CorruptWrite" ->
            <<255>> \o Tail(HeaderBytes(WriteStateData(f.offset, f.len)))
      [] OTHER -> HeaderBytes(f)

\* The bytes the peer leaves in the view for a stream of frames: each
\* header, then len data bytes; a data byte's value names its position.
RECURSIVE PeerFrames(_, _)
PeerFrames(frames, acc) ==
    IF frames = <<>> THEN acc
    ELSE PeerFrames(Tail(frames),
                    acc \o PeerHeader(Head(frames))
                        \o [i \in 1..Head(frames).len |->
                              160 + Len(acc) + Len(PeerHeader(Head(frames))) + i])

\* How the peer's stream ends after the frames in body: a termination mark,
\* a termination mark with one more ReadStateData frame behind it, an
\* unknown discriminant, a last frame that fills the view to its end, or a
\* last frame whose length field runs past the end of the view.
PeerEnd(body, ending, rest) ==
    CASE ending = "termination" -> body \o <<FS6IPC_TERMINATION_ID>>
      [] ending = "trailing" ->
            IF rest < 8 THEN body \o <<FS6IPC_TERMINATION_ID>>
            ELSE body \o <<FS6IPC_TERMINATION_ID>>
                      \o HeaderBytes(ReadStateData(568, 1, DestOf(MaxQueued + 1)))
                      \o <<255>>
      [] ending = "unknown" -> body \o <<255>>
      [] ending = "fill" ->
            IF rest < 5 THEN body \o [i \in 1..rest |-> 255]
            ELSE body \o HeaderBytes(WriteStateData(0, rest - 5))
                      \o [i \in 1..(rest - 5) |-> 255]
      [] OTHER ->
            IF rest < 6 THEN body \o [i \in 1..rest |-> 255]
            ELSE body \o HeaderBytes(ReadStateData(0, rest, 1))
                      \o [i \in 1..(rest - 6) |-> 255]

PeerBody(body, ending) == PeerEnd(body, ending, FILE_MAPPING_LEN - Len(body))

PeerImage(frames, ending) == PeerBody(PeerFrames(frames, <<>>), ending)

\* process() returned p: self is consumed, so the session's UserHandle is
\* dropped when the call returns, on every path.
process_done(s, send_result, frames, ending, p, sent) ==
    /\ sent \/ (/\ send_result = FS6IPC_MESSAGE_SUCCESS
                 /\ frames = Echo(sess[s].queued)
                 /\ ending = "termination")
    /\ shm' = p.mem
    /\ umem' = p.cmem
    /\ pr' = [s |-> s,
              status |-> IF sent THEN send_result ELSE 0,
              frames |-> IF sent THEN frames ELSE <<>>,
              ending |-> IF sent THEN ending ELSE "none",
              ret |-> p.ret, events |-> p.events, log |-> p.log]
    /\ sess' = [sess EXCEPT ![s] =
                  [st |-> "done", buffer |-> p.buffer,
                   queued |-> sess[s].queued, ret |-> p.ret,
                   stores |-> sess[s].stores \o p.stores]]
    /\ res' = drop_res(res)
    /\ rel' = drop_rel(rel)

process_returned(s, send_result, frames, ending, p) ==
    process_done(s, send_result, frames, ending, p, Len(p.events) > 1)

\* session.process() with the peer's answer in image; the peer answers
\* within the view, and does not answer a process() that never sends.
process_answered(s, send_result, frames, ending, image) ==
    /\ Len(image) <= FILE_MAPPING_LEN
       \/ sess[s].buffer.len < Len(HeaderBytes(TerminationMark))
    /\ process_returned(s, send_result, frames, ending,
                        process(sess[s].buffer, shm, umem, send_result, image))

\* session.process(): the whole call, SendMessageA and the peer's answer
\* included.
process_call(s, send_result, frames, ending) ==
    /\ sess[s].st = "open"
    /\ ~crashed
    /\ process_answered(s, send_result, frames, ending,
                        PeerImage(frames, ending))
    /\ UNCHANGED <<hpc, crashed>>
    /\ UNCHANGED <<rvars, wvars, svars, ivars>>

\* A session goes out of scope without process().
drop_session(s) ==
    /\ sess[s].st = "open"
    /\ ~crashed
    /\ sess' = [sess EXCEPT ![s] =
                  [st |-> "dropped", buffer |-> sess[s].buffer,
                   queued |-> sess[s].queued, ret |-> sess[s].ret,
                   stores |-> sess[s].stores]]
    /\ res' = drop_res(res)
    /\ rel' = drop_rel(rel)
    /\ UNCHANGED <<hpc, shm, umem, pr, crashed>>
    /\ UNCHANGED <<rvars, wvars, svars, ivars>>

\* The UserHandle returned by new() goes out of scope.
drop_handle ==
    /\ hpc = "alive"
    /\ ~crashed
    /\ hpc' = "dropped"
    /\ res' = drop_res(res)
    /\ rel' = drop_rel(rel)
    /\ UNCHANGED <<shm, umem, sess, pr, crashed>>
    /\ UNCHANGED <<rvars, wvars, svars, ivars>>

\* A session call touches the view after UnmapViewOfFile has run on it:
\* the access either faults (this action) or goes through (the call's own
\* action).
fault(s) ==
    /\ sess[s].st = "open"
    /\ ~crashed
    /\ res.view # "held"
    /\ crashed' = TRUE
    /\ UNCHANGED <<hpc, res, rel, shm, umem, sess, pr>>
    /\ UNCHANGED <<rvars, wvars, svars, ivars>>

\* ------------------------------------------------- cursor specifications
NoRet == [count |-> 0, n |-> 0, err |-> FALSE, buff |-> <<>>]
NoWRet == [inlen |-> 0, n |-> 0, err |-> FALSE, stores |-> <<>>]

RIdle ==
    /\ rsrc = <<>>
    /\ rcur = RawBytes_new(1, 0)
    /\ rret = NoRet
    /\ rsum = 0
    /\ rout = <<>>

WIdle ==
    /\ wdst = <<>>
    /\ wcur = MutRawBytes_new(1, 0)
    /\ wn = 0
    /\ wret = NoWRet
    /\ wcat = <<>>

UIdle ==
    /\ hpc = "start"
    /\ res = [atom |-> "none", mapping |-> "none", view |-> "none"]
    /\ rel = [atom |-> 0, mapping |-> 0, view |-> 0]
    /\ shm = <<>>
    /\ umem = Zeros(MaxReadLen * (MaxQueued + 1))
    /\ sess = [s \in 1..MaxSessions |-> NoSession]
    /\ pr = NoProcess
    /\ crashed = FALSE

NoScan == [done |-> FALSE, ret |-> Ok(0), at |-> 0, ats |-> <<>>]

SIdle ==
    /\ scview = <<>>
    /\ scres = NoScan

\* two threads that call UserHandle::new()
Threads == {1, 2}
\* a u32 as two 16-bit halves
U32Zero == [hi |-> 0, lo |-> 0]
NoCall == [pc |-> "out", next |-> U32Zero, tmp |-> U32Zero, rets |-> <<>>]

IIdle ==
    /\ FILE_MAPPING_INDEX = U32Zero
    /\ th = [t \in Threads |-> NoCall]

\* let mut raw = RawBytes::new(&src, N)
InitRead ==
    /\ rsrc \in SeqsUpTo(ByteVals, MaxSrc)
    /\ rcur = RawBytes_new(1, Len(rsrc))
    /\ rret = NoRet
    /\ rsum = 0
    /\ rout = <<>>
    /\ WIdle
    /\ UIdle
    /\ SIdle
    /\ IIdle

\* raw.read(&mut dest) returned r
RawReadDone(count, r) ==
    /\ rcur' = r.self
    /\ rret' = [count |-> count, n |-> r.n, err |-> r.err, buff |-> r.buff]
    /\ rsum' = rsum + r.n
    /\ rout' = rout \o SubSeq(r.buff, 1, r.n)

\* raw.read(&mut dest) with dest.len() = count
RawRead(count) ==
    /\ RawReadDone(count, RawBytes_read(rcur, rsrc, Zeros(count)))
    /\ UNCHANGED <<rsrc>>
    /\ UNCHANGED <<wvars, uvars, svars, ivars>>

NextRead == \E count \in 0..MaxCount : RawRead(count)

\* let mut raw = MutRawBytes::new(dest.as_mut_ptr().into(), N)
InitWrite ==
    /\ wdst = Zeros(MaxDst)
    /\ wn \in 0..MaxDst
    /\ wcur = MutRawBytes_new(1, wn)
    /\ wret = NoWRet
    /\ wcat = <<>>
    /\ RIdle
    /\ UIdle
    /\ SIdle
    /\ IIdle

\* raw.write(&src) returned r
MutWriteDone(buff, r) ==
    /\ wcur' = r.self
    /\ wdst' = r.mem
    /\ wret' = [inlen |-> Len(buff), n |-> r.n, err |-> r.err,
                stores |-> r.stores]
    /\ wcat' = wcat \o buff

\* raw.write(&src)
MutWrite(buff) ==
    /\ Len(wcat) + Len(buff) <= MaxCat
    /\ MutWriteDone(buff, MutRawBytes_write(wcur, wdst, buff))
    /\ UNCHANGED <<wn>>
    /\ UNCHANGED <<rvars, uvars, svars, ivars>>

NextWrite == \E buff \in SeqsUpTo(ByteVals, MaxIn) : MutWrite(buff)

vars == <<rsrc, rcur, rret, rsum, rout, wdst, wcur, wn, wret, wcat,
          hpc, res, rel, shm, umem, sess, pr, crashed, scview, scres,
          FILE_MAPPING_INDEX, th>>

SpecRead == InitRead /\ [][NextRead]_vars
SpecWrite == InitWrite /\ [][NextWrite]_vars

\* --------------------------------------------------- scan specification
\* The response scan of process() over a view of MaxScan bytes holding any
\* bytes at all.
ScanBytes == {0, 1, 2, 3}
\* the memory a frame's target byte can point at
ScanMem == [a \in 0..255 |-> 0]

InitScan ==
    /\ scview \in [1..MaxScan -> ScanBytes]
    /\ scres = NoScan
    /\ RIdle
    /\ WIdle
    /\ UIdle
    /\ IIdle

\* the loop of process() returned sc
ScanDone(sc) ==
    scres' = [done |-> TRUE, ret |-> sc.ret, at |-> sc.at,
              ats |-> [j \in 1..Len(sc.log) |-> sc.log[j].at]]

\* let mut buffer = RawBytes::new(view, len); loop { ... }
Scan ==
    /\ ~scres.done
    /\ ScanDone(ScanLoop(RawBytes_new(1, Len(scview)), scview, ScanMem, <<>>))
    /\ UNCHANGED <<scview>>
    /\ UNCHANGED <<rvars, wvars, uvars, ivars>>

NextScan == Scan

SpecScan == InitScan /\ [][NextScan]_vars

\* -------------------------------------------------- index specification
\* next_file_mapping_index() run by two threads. The static is read and
\* written without any synchronisation, so the threads' accesses
\* interleave; the build either keeps the value it loaded for `next` and
\* adds to that, or loads the static again for the `+= 1`.
\* x + 1 on a u32, held as two 16-bit halves
U32Add1(x) ==
    IF x.lo = 65535 THEN [hi |-> (x.hi + 1) % 65536, lo |-> 0]
    ELSE [hi |-> x.hi, lo |-> x.lo + 1]

\* let next = FILE_MAPPING_INDEX;
next_file_mapping_index_load(t) ==
    /\ th[t].pc = "out"
    /\ Len(th[t].rets) < MaxCalls
    /\ th' = [th EXCEPT ![t] = [pc |-> "loaded", next |-> FILE_MAPPING_INDEX,
                               tmp |-> U32Zero, rets |-> th[t].rets]]
    /\ UNCHANGED <<FILE_MAPPING_INDEX>>
    /\ UNCHANGED <<rvars, wvars, uvars, svars>>

\* FILE_MAPPING_INDEX += 1, the operand: the value already loaded, or the
\* static read again
next_file_mapping_index_operand(t) ==
    /\ th[t].pc = "loaded"
    /\ \E v \in {th[t].next, FILE_MAPPING_INDEX} :
          th' = [th EXCEPT ![t] = [pc |-> "adding", next |-> th[t].next,
                                   tmp |-> v, rets |-> th[t].rets]]
    /\ UNCHANGED <<FILE_MAPPING_INDEX>>
    /\ UNCHANGED <<rvars, wvars, uvars, svars>>

\* FILE_MAPPING_INDEX += 1, the store; then `next` is returned
next_file_mapping_index_store(t) ==
    /\ th[t].pc = "adding"
    /\ FILE_MAPPING_INDEX' = U32Add1(th[t].tmp)
    /\ th' = [th EXCEPT ![t] = [pc |-> "out", next |-> th[t].next,
                               tmp |-> th[t].tmp,
                               rets |-> Append(th[t].rets, th[t].next)]]
    /\ UNCHANGED <<rvars, wvars, uvars, svars>>

InitIndex ==
    /\ IIdle
    /\ RIdle
    /\ WIdle
    /\ UIdle
    /\ SIdle

NextIndex ==
    \/ \E t \in Threads : next_file_mapping_index_load(t)
    \/ \E t \in Threads : next_file_mapping_index_operand(t)
    \/ \E t \in Threads : next_file_mapping_index_store(t)

SpecIndex == InitIndex /\ [][NextIndex]_vars

\* ------------------------------------------------ session specifications
\* Before UserHandle::new().
Init ==
    /\ UIdle
    /\ RIdle
    /\ WIdle
    /\ SIdle
    /\ IIdle

NewSteps == {"window", "message", "atom", "mapping", "view", "none"}
Statuses == {0, 1, 2}
ReadLens == 1..MaxReadLen
WriteLens == {2, FILE_MAPPING_LEN \div 3}
\* the call's source bytes
SrcBytes(len) == [i \in 1..len |-> 9]

\* The ways a peer's answer may differ from the echo, at frame k: a frame is
\* missing, a frame claims one byte more than was asked for, or an extra
\* ReadStateData frame appears whose target no call of the session gave,
\* or a frame's discriminant is corrupt.
Deviations == {"exact", "drop", "longer", "stray", "corrupt"}
Deviate(frames, dev, k) ==
    CASE dev = "drop" /\ k <= Len(frames) ->
            SubSeq(frames, 1, k - 1) \o SubSeq(frames, k + 1, Len(frames))
      [] dev = "longer" /\ k <= Len(frames) ->
            [frames EXCEPT ![k] = [@ EXCEPT !.len = @ + 1]]
      [] dev = "corrupt" /\ k <= Len(frames) ->
            [frames EXCEPT ![k] =
                [@ EXCEPT !.kind = IF @ = "ReadStateData" THEN "CorruptRead"
                                   ELSE "CorruptWrite"]]
      [] dev = "stray" ->
            SubSeq(frames, 1, k - 1)
            \o <<ReadStateData(568, 1, DestOf(MaxQueued + 1))>>
            \o SubSeq(frames, k, Len(frames))
      [] OTHER -> frames
Endings == {"termination", "trailing", "unknown", "fill", "overrun"}

\* One handle, one session, as in examples/hello.rs: the handle is declared
\* before the session and so outlives it.
Next ==
    \/ \E fail \in NewSteps : new(fail)
    \/ session(1)
    \/ \E len \in ReadLens :
          read_bytes(1, 568, DestOf(Len(sess[1].queued) + 1), len)
    \/ \E len \in WriteLens : write_bytes(1, 13064, SrcBytes(len), len)
    \/ \E st \in Statuses, dev \in Deviations, e \in Endings :
          \E k \in 1..(Len(sess[1].queued) + 1) :
              /\ (dev = "exact" => k = 1)
              /\ (dev \in {"drop", "longer", "corrupt"}
                     => k <= Len(sess[1].queued))
              /\ process_call(1, st, Deviate(Echo(sess[1].queued), dev, k), e)
    \/ drop_session(1)
    \/ (sess[1].st # "open" /\ drop_handle)

Spec == Init /\ [][Next]_vars

\* Any client of one handle: several sessions, in any order, each dropped
\* or processed; the handle may go out of scope at any time, since a
\* session owns its own clone of it.
NextHandle ==
    \/ \E fail \in NewSteps : new(fail)
    \/ \E s \in 1..MaxSessions : session(s)
    \/ \E s \in 1..MaxSessions :
          read_bytes(s, 568, DestOf(Len(sess[s].queued) + 1), 1)
    \/ \E s \in 1..MaxSessions : write_bytes(s, 13064, SrcBytes(2), 2)
    \/ \E s \in 1..MaxSessions, st \in Statuses :
          process_call(s, st, Echo(sess[s].queued), "termination")
    \/ \E s \in 1..MaxSessions : drop_session(s)
    \/ drop_handle
    \/ \E s \in 1..MaxSessions : fault(s)

SpecHandle == Init /\ [][NextHandle]_vars

\* ------------------------------------------------------ cursor properties
\* C1: every RawBytes::read call returns Ok(min(count, remaining)), which is
\* 0 when nothing remains, fills exactly that many bytes of buff, and
\* afterwards consumed() is the sum of the counts returned so far.
C1_ReadReturnsMin ==
    [][ /\ rret'.err = FALSE
        /\ rret'.n = Min(rret'.count, rcur.len)
        /\ (rcur.len = 0 => rret'.n = 0)
        /\ \A i \in 1..rret'.count :
              rret'.buff[i] = IF i <= rret'.n THEN rsrc[rcur.data + i - 1] ELSE 0
        /\ consumed(rcur') = rsum' ]_vars

\* A second read asked for more than was left and was clamped.
C1_Witness ==
    /\ rret.n > 0
    /\ rret.count > rret.n
    /\ rsum > rret.n
    /\ consumed(rcur) = Len(rsrc)

C3_WriteAdvances ==
    \A i \in 1..Len(wdst) :
        wdst[i] = IF i <= Min(wn, Len(wcat)) THEN wcat[i] ELSE 0

\* ----------------------------------------------------- session properties
\* the calls of the session that process() last ran for
Queued == sess[pr.s].queued

\* the last process() got past SendMessageA
Sent == pr.s # 0 /\ Len(pr.events) > 1

\* every call of the session succeeded and the peer answered the success
\* status with the exact echo of the request stream
Conforming ==
    /\ Sent
    /\ pr.status = FS6IPC_MESSAGE_SUCCESS
    /\ \A k \in 1..Len(Queued) : Queued[k].ok
    /\ pr.frames = Echo(Queued)
    /\ pr.ending = "termination"

\* the data bytes the peer placed in the k-th frame of its answer
RECURSIVE FrameStart(_, _)
FrameStart(frames, k) ==
    IF k = 1 THEN 0
    ELSE FrameStart(frames, k - 1) + Len(HeaderBytes(frames[k - 1]))
         + frames[k - 1].len
PayloadAt(image, at, len) == SubSeq(image, at + 1, at + len)
PeerPayload(k) ==
    PayloadAt(PeerImage(pr.frames, pr.ending),
              FrameStart(pr.frames, k) + Len(HeaderBytes(pr.frames[k])),
              pr.frames[k].len)

\* the caller's destination of the k-th call
Destination(k) ==
    SubSeq(umem, Queued[k].target, Queued[k].target + Queued[k].len - 1)

\* C4: after a successful process(), the destination of every read call
\* holds exactly the payload bytes of that call's response frame, in order.
C4_DestinationHoldsPayload ==
    (Conforming /\ pr.ret.ok) =>
        \A k \in 1..Len(Queued) :
            Queued[k].kind = "read" => Destination(k) = PeerPayload(k)

\* C5: demultiplexing follows issuance order. When the peer echoes the
\* request stream, process() succeeds, the k-th frame scanned is the k-th
\* call's frame, the bytes handed to the k-th read's destination cursor are
\* the k-th frame's payload and are stored inside that destination only, and
\* a write's echo hands nothing to anyone.
C5_DemuxInIssuanceOrder ==
    Conforming =>
        /\ pr.ret.ok
        /\ Len(pr.log) = Len(Queued)
        /\ \A k \in 1..Len(Queued) :
              /\ pr.log[k].header = Echo(Queued)[k]
              /\ Queued[k].kind = "read" =>
                    /\ pr.log[k].data = PeerPayload(k)
                    /\ Len(pr.log[k].stores) = Queued[k].len
                    /\ \A i \in 1..Len(pr.log[k].stores) :
                          pr.log[k].stores[i] \in
                            Queued[k].target..(Queued[k].target + Queued[k].len - 1)
                    /\ \A i \in 1..Queued[k].len :
                          \/ Destination(k)[i] = 0
                          \/ \E j \in 1..Queued[k].len :
                                Destination(k)[i] = PeerPayload(k)[j]
              /\ Queued[k].kind = "write" => pr.log[k].stores = <<>>

\* read, write, read: the second read got its byte from the third frame.
C5_Witness ==
    /\ Conforming
    /\ Len(Queued) = 3
    /\ Queued[1].kind = "read"
    /\ Queued[2].kind = "write"
    /\ Queued[3].kind = "read"
    /\ Destination(3)[1] = PeerPayload(3)[Queued[3].len]
    /\ Destination(1)[1] = PeerPayload(1)[Queued[1].len]

\* C6: when SendMessageA returns anything but FS6IPC_MESSAGE_SUCCESS,
\* process() returns the rejection with that status, scans nothing and
\* leaves the caller's memory as it was.
C6_RejectedNoDemux ==
    [][ \A s \in 1..MaxSessions :
          (/\ sess[s].st = "open"
           /\ sess'[s].st = "done"
           /\ Len(pr'.events) > 1
           /\ pr'.status # FS6IPC_MESSAGE_SUCCESS)
          => /\ pr'.ret = Err("PeerRejected", pr'.status)
             /\ pr'.log = <<>>
             /\ umem' = umem ]_vars

\* A rejected process() whose answer held a frame for a read destination.
C6_Witness ==
    /\ Sent
    /\ pr.status = 2
    /\ pr.ret.err = "PeerRejected"
    /\ \E k \in 1..Len(pr.frames) : pr.frames[k].kind = "ReadStateData"
    /\ pr.ending = "termination"

\* the size of the frame the k-th call encodes
RequestSize(q) ==
    IF q.kind = "read" THEN Len(HeaderBytes(ReadStateData(q.offset, q.len, q.target)))
    ELSE Len(HeaderBytes(WriteStateData(q.offset, q.len))) + q.len

\* C7: a read or write call whose frame does not fit in what is left of the
\* buffer fails with BufferExhausted, and the failed call leaves the buffer
\* contents and the write position as they were.
C7_FailedCallLeavesBuffer ==
    [][ \A s \in 1..MaxSessions :
          Len(sess'[s].queued) = Len(sess[s].queued) + 1
          => LET q == sess'[s].queued[Len(sess'[s].queued)]
             IN  /\ (RequestSize(q) > sess[s].buffer.len
                        => sess'[s].ret = Err("BufferExhausted", 0))
                 /\ (~sess'[s].ret.ok
                        => shm' = shm /\ sess'[s].buffer = sess[s].buffer) ]_vars

\* C8: at most one session of a connection is open at any moment.
C8_OneSessionAtATime ==
    Cardinality({s \in 1..MaxSessions : sess[s].st = "open"}) <= 1

\* C9: the atom, the view and the mapping handle are released exactly once,
\* when the handle's owner goes out of scope: not while the handle is
\* alive, not by the end of a session, and never twice.
C9_ReleasedOnceAtOwnerExit ==
    /\ hpc = "alive" =>
          /\ rel = [atom |-> 0, mapping |-> 0, view |-> 0]
          /\ res = [atom |-> "held", mapping |-> "held", view |-> "held"]
    /\ hpc = "dropped" => rel = [atom |-> 1, mapping |-> 1, view |-> 1]
    /\ rel.atom <= 1 /\ rel.mapping <= 1 /\ rel.view <= 1

\* C10: when UserHandle::new() fails, nothing it acquired is still held
\* when the error is returned.
C10_FailedNewReleases ==
    hpc = "refused" =>
        /\ res.atom # "held"
        /\ res.mapping # "held"
        /\ res.view # "held"

\* ------------------------------------------------------- scan properties
\* process() got past SendMessageA with the success status in this step
Scanned(s) ==
    /\ sess[s].st = "open"
    /\ sess'[s].st = "done"
    /\ Len(pr'.events) > 1
    /\ pr'.status = FS6IPC_MESSAGE_SUCCESS

\* the frames of the peer's stream with a corrupt discriminant
CorruptFrames(frames) ==
    {j \in 1..Len(frames) : frames[j].kind \in {"CorruptRead", "CorruptWrite"}}

\* what is left of the view after the frames
RestAfter(frames) == FILE_MAPPING_LEN - Len(PeerFrames(frames, <<>>))

\* the position, in the peer's stream, of the first frame that cannot be
\* decoded; 0 when every frame up to the termination mark can
MalformedAt(frames, ending) ==
    IF CorruptFrames(frames) # {}
    THEN CHOOSE j \in CorruptFrames(frames) :
            \A i \in CorruptFrames(frames) : j <= i
    ELSE CASE ending \in {"termination", "trailing"} -> 0
           [] ending = "fill" /\ RestAfter(frames) >= 5 -> Len(frames) + 2
           [] OTHER -> Len(frames) + 1

\* memory after the byte stores of the scanned frames, in scan order
RECURSIVE StoreAll(_, _, _)
StoreAll(mem, stores, data) ==
    IF stores = <<>> THEN mem
    ELSE StoreAll([mem EXCEPT ![Head(stores)] = Head(data)],
                  Tail(stores), Tail(data))
RECURSIVE Replay(_, _)
Replay(log, mem) ==
    IF log = <<>> THEN mem
    ELSE Replay(Tail(log), StoreAll(mem, Head(log).stores, Head(log).data))

\* C11: when the k-th frame of the response cannot be decoded, process()
\* returns MalformedFrame having scanned frames 1..k-1 and no later one;
\* the caller's memory holds what those k-1 frames stored (nothing is
\* rolled back), and the destination named by any frame at or after k is
\* as it was before the call.
C11_MalformedStopsScan ==
    [][ \A s \in 1..MaxSessions :
          (Scanned(s) /\ MalformedAt(pr'.frames, pr'.ending) > 0)
          => /\ pr'.ret = Err("MalformedFrame", 0)
             /\ Len(pr'.log) = MalformedAt(pr'.frames, pr'.ending) - 1
             /\ \A j \in 1..Len(pr'.log) :
                   j <= Len(pr'.frames) => pr'.log[j].header = pr'.frames[j]
             /\ umem' = Replay(pr'.log, umem)
             /\ \A j \in 1..Len(pr'.log) :
                   pr'.log[j].header.kind = "ReadStateData"
                   => umem'[pr'.log[j].header.target] # umem[pr'.log[j].header.target]
             /\ \A j \in MalformedAt(pr'.frames, pr'.ending)..Len(pr'.frames) :
                   \A c \in pr'.frames[j].target
                              ..(pr'.frames[j].target + pr'.frames[j].len - 1) :
                       pr'.frames[j].target # 0 => umem'[c] = umem[c] ]_vars

\* Three reads answered with a corrupt second frame: the first read's
\* destination was filled, the third one's frame was in the view and its
\* destination is untouched.
C11_Witness ==
    /\ Sent
    /\ pr.status = FS6IPC_MESSAGE_SUCCESS
    /\ pr.ret.err = "MalformedFrame"
    /\ Len(pr.frames) = 3
    /\ pr.frames[1].kind = "ReadStateData"
    /\ pr.frames[2].kind = "CorruptRead"
    /\ pr.frames[3].kind = "ReadStateData"
    /\ pr.ending = "termination"
    /\ umem[pr.frames[1].target] # 0
    /\ umem[pr.frames[3].target] = 0

\* C12: the bytes the read calls handed out, concatenated in call order,
\* are the first consumed() bytes of the source, each once and in order,
\* and consumed() plus what remains is the length the cursor was created
\* with.
C12_ReadsAreAPrefix ==
    /\ rout = SubSeq(rsrc, 1, consumed(rcur))
    /\ consumed(rcur) + rcur.len = Len(rsrc)
    /\ rcur.data = 1 + consumed(rcur)

\* Several reads have handed out the whole of a source of differing bytes.
C12_Witness ==
    /\ Len(rsrc) = MaxSrc
    /\ rsrc[1] # rsrc[2]
    /\ consumed(rcur) = Len(rsrc)
    /\ rret.n > 0
    /\ rret.n < consumed(rcur)

\* the encoded size of a frame of the response: header and payload
EncodedSize(f) == Len(PeerHeader(f)) + f.len
RECURSIVE TotalSize(_)
TotalSize(frames) ==
    IF frames = <<>> THEN 0
    ELSE EncodedSize(Head(frames)) + TotalSize(Tail(frames))

\* C13: a process() that got the success status returns Ok exactly when
\* every frame up to the first termination mark can be decoded, and then
\* the value is the sum of the encoded sizes of those frames plus the
\* mark's; the scan reads nothing behind the mark.
C13_ReturnsBytesConsumed ==
    [][ \A s \in 1..MaxSessions :
          Scanned(s)
          => /\ pr'.ret.ok <=> MalformedAt(pr'.frames, pr'.ending) = 0
             /\ pr'.ret.ok =>
                   /\ pr'.ret.val = TotalSize(pr'.frames)
                                     + Len(HeaderBytes(TerminationMark))
                   /\ Len(pr'.log) = Len(pr'.frames)
                   /\ \A j \in 1..Len(pr'.log) :
                         pr'.log[j].header = pr'.frames[j]
                   /\ umem' = Replay(pr'.log, umem) ]_vars

\* A read and a write answered, the mark followed by one more frame: the
\* call returned 6 + (5 + 2) + 1 + the read's length.
C13_Witness ==
    /\ Sent
    /\ pr.status = FS6IPC_MESSAGE_SUCCESS
    /\ pr.ending = "trailing"
    /\ pr.ret.ok
    /\ Len(pr.frames) = 2
    /\ pr.frames[1].kind = "ReadStateData"
    /\ pr.frames[2].kind = "WriteStateData"
    /\ pr.frames[2].len = 2
    /\ pr.ret.val = 14 + pr.frames[1].len
    /\ umem[DestOf(MaxQueued + 1)] = 0

\* the cells of the caller's memory that the read calls of session s named
Registered(s) ==
    {c \in 1..Len(umem) :
        \E k \in 1..Len(sess[s].queued) :
            /\ sess[s].queued[k].kind = "read"
            /\ c \in sess[s].queued[k].target
                      ..(sess[s].queued[k].target + sess[s].queued[k].len - 1)}

\* C14: the scan stores response bytes only into destinations that a read
\* call of this session named; a ReadStateData frame whose target no read
\* call named is dropped without a store, and the destination of a read
\* call whose frame is not in the response is left as it was.
C14_OnlyRegisteredDestinations ==
    [][ \A s \in 1..MaxSessions :
          Scanned(s)
          => /\ \A c \in 1..Len(umem) :
                   umem'[c] # umem[c] => c \in Registered(s)
             /\ \A j \in 1..Len(pr'.log) :
                   pr'.log[j].header.target \notin Registered(s)
                   => pr'.log[j].stores = <<>>
             /\ \A k \in 1..Len(sess[s].queued) :
                   (/\ sess[s].queued[k].kind = "read"
                    /\ \A j \in 1..Len(pr'.frames) :
                          pr'.frames[j].target # sess[s].queued[k].target)
                   => \A c \in sess[s].queued[k].target
                                ..(sess[s].queued[k].target
                                     + sess[s].queued[k].len - 1) :
                          umem'[c] = umem[c] ]_vars

\* C15: every byte a session writes through its buffer cursor lands inside
\* the FILE_MAPPING_LEN bytes of the view, the cursor writes at most
\* FILE_MAPPING_LEN bytes in the session's life, and what does not fit is
\* left out.
C15_WritesStayInView ==
    \A s \in 1..MaxSessions :
        sess[s].st # "none" =>
            /\ \A i \in 1..Len(sess[s].stores) :
                  sess[s].stores[i] \in 1..FILE_MAPPING_LEN
            /\ Len(sess[s].stores) <= FILE_MAPPING_LEN
            /\ sess[s].buffer.len = FILE_MAPPING_LEN - Len(sess[s].stores)
            /\ Len(shm) = FILE_MAPPING_LEN

\* A session whose calls asked for more than the view holds: the last call
\* was cut short and the cursor has nothing left.
C15_Witness ==
    /\ sess[1].st = "open"
    /\ Len(sess[1].queued) > 1
    /\ ~sess[1].queued[Len(sess[1].queued)].ok
    /\ sess[1].buffer.len = 0
    /\ Len(sess[1].stores) = FILE_MAPPING_LEN

\* --------------------------------------------------- process properties
\* session s ran process() in this step
Processed(s) == sess[s].st = "open" /\ sess'[s].st = "done"

\* C16: every process() writes the termination mark after the bytes of all
\* queued frames, then calls SendMessageA exactly once, then scans the view
\* from offset 0, and scans only when SendMessageA returned success; when
\* the termination mark does not fit, process() returns BufferExhausted
\* and SendMessageA is not called.
C16_ProcessOrder ==
    [][ \A s \in 1..MaxSessions :
          Processed(s)
          => /\ sess'[s].queued = sess[s].queued
             /\ IF sess[s].buffer.len < Len(HeaderBytes(TerminationMark))
                THEN /\ pr'.events = <<"termination_failed">>
                     /\ pr'.ret = Err("BufferExhausted", 0)
                     /\ pr'.log = <<>>
                     /\ shm' = shm
                     /\ umem' = umem
                ELSE /\ sess'[s].stores = sess[s].stores \o <<sess[s].buffer.data>>
                     /\ SubSeq(pr'.events, 1, 2) = <<"termination", "commit">>
                     /\ Cardinality({i \in 1..Len(pr'.events) :
                                       pr'.events[i] = "commit"}) = 1
                     /\ shm' = PeerWrite([shm EXCEPT ![sess[s].buffer.data] =
                                              FS6IPC_TERMINATION_ID],
                                         PeerImage(pr'.frames, pr'.ending))
                     /\ IF pr'.status = FS6IPC_MESSAGE_SUCCESS
                        THEN /\ pr'.events = <<"termination", "commit", "scan">>
                             /\ pr'.log # <<>> =>
                                   HeaderBytes(pr'.log[1].header)
                                   = SubSeq(PeerImage(pr'.frames, pr'.ending), 1,
                                            Len(HeaderBytes(pr'.log[1].header)))
                        ELSE /\ pr'.events = <<"termination", "commit">>
                             /\ pr'.log = <<>> ]_vars

\* The queued frames filled the view, so the termination mark did not fit:
\* process() returned the error and the peer was never asked.
C16_Witness ==
    /\ pr.s = 1
    /\ pr.events = <<"termination_failed">>
    /\ pr.ret = Err("BufferExhausted", 0)
    /\ Len(sess[1].queued) > 1
    /\ sess[1].buffer.len = 0

C18_IndexesDiffer ==
    \A t1 \in Threads, t2 \in Threads :
        \A i \in 1..Len(th[t1].rets), j \in 1..Len(th[t2].rets) :
            (t1 # t2 \/ i # j) => th[t1].rets[i] # th[t2].rets[j]

\* ----------------------------------------------------- handle properties
\* session s wrote a frame into the view, or ran process(), in this step
Accessed(s) ==
    \/ Len(sess'[s].queued) > Len(sess[s].queued)
    \/ Processed(s)

\* C19: the view is never accessed after it was released. While the
\* UserHandle that new() returned is alive, the view is mapped and the atom
\* registered, so every call of every session, a later session included,
\* works on a mapped view and sends a registered atom, and none faults.
C19_ViewMappedWhileHandleAlive ==
    [][ /\ \A s \in 1..MaxSessions :
              Accessed(s) => /\ res.view = "held"
                             /\ res.atom = "held"
                             /\ res.mapping = "held"
        /\ hpc' = "alive" => res'.view = "held" /\ res'.atom = "held"
        /\ ~crashed' ]_vars

\* C20: whatever length the peer's frame carries, the scan copies into a
\* read call's destination no more bytes than the length the caller gave
\* for it, and stores none of them outside that destination.
C20_CopyBoundedByCallerLength ==
    [][ \A s \in 1..MaxSessions :
          Scanned(s)
          => \A j \in 1..Len(pr'.log) :
                \A k \in 1..Len(sess[s].queued) :
                    (/\ sess[s].queued[k].kind = "read"
                     /\ pr'.log[j].header.kind = "ReadStateData"
                     /\ pr'.log[j].header.target = sess[s].queued[k].target)
                    => /\ Len(pr'.log[j].stores) <= sess[s].queued[k].len
                       /\ \A i \in 1..Len(pr'.log[j].stores) :
                             pr'.log[j].stores[i] \in
                               sess[s].queued[k].target
                               ..(sess[s].queued[k].target
                                    + sess[s].queued[k].len - 1) ]_vars

====
